---------------------------- MODULE Spec2Model ----------------------------
(***************************************************************************)
(* LinkShrink: the URL shortener's storage layer (DatabaseStorage), its    *)
(* HTTP routes (POST /api/urls, POST /api/urls/bulk, PUT and DELETE        *)
(* /api/urls/:id, GET /:shortCode) and the click analytics pipeline        *)
(* (recordClick, updateUrlAnalytics), as a state machine.                  *)
(*                                                                         *)
(* The store is the three tables urls, url_clicks and url_analytics.  A    *)
(* request handler is a sequence of steps; one step runs from one `await`  *)
(* on a storage call to the next, so a step holds at most one SQL          *)
(* statement and handlers interleave between their statements.             *)
(*                                                                         *)
(* Strings that the code inspects are modelled by their structure: a short *)
(* code or alias is the sequence of its characters, a Referer header the   *)
(* sequence <<scheme, host, path>> (any other shape does not parse as a    *)
(* URL), a User-Agent the set of case-folded markers it contains.          *)
(***************************************************************************)
EXTENDS Integers, Sequences, FiniteSets, TLC

VARIABLES
    urls,          \* table urls: sequence of rows, row i has id i
    urlClicks,     \* table url_clicks: sequence of rows in insertion order
    urlAnalytics,  \* table url_analytics: function urlId -> row (urlId is unique)
    now,           \* the clock read by defaultNow() and new Date()
    faults,        \* number of storage/collaborator calls that have thrown so far
    req            \* the request handlers: req[r] is the state of request r

vars == <<urls, urlClicks, urlAnalytics, now, faults, req>>

---------------------------------------------------------------------------
(* Bounds of the model *)

\* requests that arrive in one run
MaxRequests == 2
\* requests that are handled at the same time
MaxInFlight == 2
\* the clock runs from 0 to MaxTime
MaxTime == 1
\* calls that may throw in one run
MaxFaults == 1
\* clock ticks per calendar day, for date(clicked_at)
TicksPerDay == 1

Reqs == 1..MaxRequests

---------------------------------------------------------------------------
(* Values *)

\* SQL NULL in a text column, and in a timestamp column
Null == "<null>"
NoTime == -1
\* a Referer header that is absent reads as '' in the route, and `|| null`
\* stores NULL: both are the empty sequence here
NoReferer == <<>>
\* no custom alias in the request body (customAlias is optional)
NoAlias == <<>>

Anon == "anonymous"
Users == {"u1", "u2"}

TargetA == "https://example.com/a"
TargetB == "https://example.com/b"

\* two outputs of nanoid(8)
CodeA == <<"x", "K", "3", "_", "a", "b", "7", "Q">>
CodeB == <<"m", "-", "2", "L", "n", "N", "q", "7">>

\* custom aliases that clients ask for: a free word, the text of a nanoid
\* output, one longer than the short_code column, and two that the schema rejects
AliasPromo == <<"p", "r", "o", "m", "o">>
AliasLong == <<"s", "u", "m", "m", "e", "r", "-", "s", "a", "l", "e", "-", "2", "5">>
AliasShort == <<"a", "b">>
AliasSpaced == <<"m", "y", " ", "l", "i", "n", "k">>

\* the characters of /^[a-zA-Z0-9_-]+$/
AliasAlphabet ==
    {"a", "b", "c", "d", "e", "f", "g", "h", "i", "j", "k", "l", "m",
     "n", "o", "p", "q", "r", "s", "t", "u", "v", "w", "x", "y", "z",
     "A", "B", "C", "D", "E", "F", "G", "H", "I", "J", "K", "L", "M",
     "N", "O", "P", "Q", "R", "S", "T", "U", "V", "W", "X", "Y", "Z",
     "0", "1", "2", "3", "4", "5", "6", "7", "8", "9", "_", "-"}

\* z.string().min(3).max(50) of customAlias
AliasMinLen == 3
AliasMaxLen == 50
\* varchar("short_code", { length: 12 }) and varchar("custom_alias", { length: 50 })
ShortCodeColumnLen == 12
CustomAliasColumnLen == 50

\* User-Agent headers, each the set of markers its lower-cased text contains
UaChrome == {"chrome", "safari", "windows"}
UaFirefoxMobile == {"firefox", "android", "mobile", "linux"}
UaNone == {}

RefererNews == <<"https:", "news.example", "/story">>

\* the clients that follow short links: req.ip, User-Agent, Referer
Clients ==
    { [ip |-> "10.0.0.1", userAgent |-> UaChrome,        referer |-> NoReferer],
      [ip |-> "10.0.0.1", userAgent |-> UaFirefoxMobile, referer |-> RefererNews],
      [ip |-> "10.0.0.2", userAgent |-> UaNone,          referer |-> NoReferer] }

---------------------------------------------------------------------------
(* utils: parseUserAgent, extractDomain *)

Includes(ua, marker) == marker \in ua

\* the browser detection with the Safari test ahead of the Chrome test
BrowserSafariFirst(ua) ==
    IF Includes(ua, "safari") /\ ~Includes(ua, "edg") THEN "Safari"
    ELSE IF Includes(ua, "chrome") /\ ~Includes(ua, "edg") THEN "Chrome"
    ELSE IF Includes(ua, "firefox") THEN "Firefox"
    ELSE IF Includes(ua, "edg") THEN "Edge"
    ELSE IF Includes(ua, "opera") \/ Includes(ua, "opr") THEN "Opera"
    ELSE "Unknown"

Browser(ua) ==
    IF Includes(ua, "chrome") /\ ~Includes(ua, "edg") THEN "Chrome"
    ELSE IF Includes(ua, "firefox") THEN "Firefox"
    ELSE IF Includes(ua, "safari") /\ ~Includes(ua, "chrome") THEN "Safari"
    ELSE IF Includes(ua, "edg") THEN "Edge"
    ELSE IF Includes(ua, "opera") \/ Includes(ua, "opr") THEN "Opera"
    ELSE "Unknown"

Os(ua) ==
    IF Includes(ua, "windows") THEN "Windows"
    ELSE IF Includes(ua, "mac") THEN "macOS"
    ELSE IF Includes(ua, "linux") THEN "Linux"
    ELSE IF Includes(ua, "android") THEN "Android"
    ELSE IF Includes(ua, "ios") \/ Includes(ua, "iphone") \/ Includes(ua, "ipad") THEN "iOS"
    ELSE "Unknown"

Device(ua) ==
    IF Includes(ua, "mobile") \/ Includes(ua, "android") \/ Includes(ua, "iphone") THEN "Mobile"
    ELSE IF Includes(ua, "tablet") \/ Includes(ua, "ipad") THEN "Tablet"
    ELSE "Desktop"

parseUserAgent(ua) == [browser |-> Browser(ua), os |-> Os(ua), device |-> Device(ua)]

\* new URL(url).hostname, or 'Direct' when the constructor throws
extractDomain(url) ==
    IF Len(url) = 3 /\ url[1] \in {"http:", "https:"} /\ url[2] # ""
    THEN <<url[2]>>
    ELSE <<"Direct">>

---------------------------------------------------------------------------
(* The tables *)

\* a row of urls; is_active defaults to true, expires_at to NULL, updated_at
\* to defaultNow()
UrlRow(id, target, code, alias, owner, active, t) ==
    [id |-> id, originalUrl |-> target, shortCode |-> code, customAlias |-> alias,
     userId |-> owner, isActive |-> active, expiresAt |-> NoTime, updatedAt |-> t]

\* ids of the rows of urls
UrlIds == DOMAIN urls

\* urls.short_code is UNIQUE over all rows, active or not
ShortCodeTaken(rows, code) == \E i \in DOMAIN rows : rows[i].shortCode = code

\* getUrl: the active row with this short code, as a set (empty: undefined)
getUrl(shortCode) ==
    {i \in UrlIds : urls[i].shortCode = shortCode /\ urls[i].isActive}

\* the rows of url_clicks of one link
ClicksOf(clicks, urlId) == SelectSeq(clicks, LAMBDA c : c.urlId = urlId)

\* the row createUrl inserts into url_analytics; the jsonb columns default to {}
EmptyAnalytics(t) ==
    [totalClicks |-> 0, uniqueClicks |-> 0,
     clicksByCountry |-> <<>>, clicksByDevice |-> <<>>,
     clicksByBrowser |-> <<>>, clicksByReferer |-> <<>>,
     dailyClicks |-> <<>>, lastClickAt |-> NoTime, updatedAt |-> t]

---------------------------------------------------------------------------
(* updateUrlAnalytics: the aggregation query *)

\* coalesce(value, fallback)
Coalesce(v, null, fallback) == IF v = null THEN fallback ELSE v

\* count(col): the rows whose value is not NULL
\* json_object_agg(coalesce(col, fallback), count(col)): one entry per coalesced
\* key, its value the count(col) of the rows under that key
JsonObjectAgg(rows, col, null, fallback) ==
    LET keys == {Coalesce(rows[i][col], null, fallback) : i \in DOMAIN rows}
    IN  [k \in keys |->
            Cardinality({i \in DOMAIN rows :
                            /\ Coalesce(rows[i][col], null, fallback) = k
                            /\ rows[i][col] # null})]

\* date(clicked_at)
Date(t) == t \div TicksPerDay

\* json_object_agg(date(clicked_at), count( * ))
DailyAgg(rows) ==
    LET days == {Date(rows[i].clickedAt) : i \in DOMAIN rows}
    IN  [d \in days |-> Cardinality({i \in DOMAIN rows : Date(rows[i].clickedAt) = d})]

\* max(clicked_at)
MaxClickedAt(rows) ==
    CHOOSE t \in {rows[i].clickedAt : i \in DOMAIN rows} :
        \A i \in DOMAIN rows : rows[i].clickedAt <= t

\* the one row of the SELECT ... GROUP BY url_id, for a link that has clicks
Aggregate(rows) ==
    [totalClicks  |-> Len(rows),
     uniqueClicks |-> Cardinality({rows[i].ipAddress : i \in DOMAIN rows} \ {Null}),
     countries    |-> JsonObjectAgg(rows, "country", Null, "Unknown"),
     devices      |-> JsonObjectAgg(rows, "device", Null, "Unknown"),
     browsers     |-> JsonObjectAgg(rows, "browser", Null, "Unknown"),
     referers     |-> JsonObjectAgg(rows, "referer", NoReferer, <<"Direct">>),
     dailyClicks  |-> DailyAgg(rows),
     lastClick    |-> MaxClickedAt(rows)]

\* no aggregate held by a handler
NoData == [totalClicks |-> 0]

\* the upsert with last_click_at taken from the clock instead of max(clicked_at)
UpsertRowStampsLastClick(data, t) ==
    [totalClicks |-> data.totalClicks, uniqueClicks |-> data.uniqueClicks,
     clicksByCountry |-> data.countries, clicksByDevice |-> data.devices,
     clicksByBrowser |-> data.browsers, clicksByReferer |-> data.referers,
     dailyClicks |-> data.dailyClicks, lastClickAt |-> t,
     updatedAt |-> t]

\* INSERT ... ON CONFLICT (url_id) DO UPDATE SET ...: the row after the upsert
UpsertRow(data, t) ==
    [totalClicks |-> data.totalClicks, uniqueClicks |-> data.uniqueClicks,
     clicksByCountry |-> data.countries, clicksByDevice |-> data.devices,
     clicksByBrowser |-> data.browsers, clicksByReferer |-> data.referers,
     dailyClicks |-> data.dailyClicks, lastClickAt |-> data.lastClick,
     updatedAt |-> t]

---------------------------------------------------------------------------
(* Request handlers *)

\* a PUT body that sets nothing
NoUpdates == [customAlias |-> NoAlias, shortCode |-> NoAlias, originalUrl |-> "", isActive |-> {}]

\* a handler that has not received its request
IdleReq ==
    [kind |-> "none", pc |-> "idle", user |-> Anon,
     status |-> 0, sent |-> 0, location |-> "",
     shortCode |-> NoAlias, lookup |-> "pending", urlId |-> 0, data |-> NoData,
     items |-> <<>>, idx |-> 0, created |-> <<>>, results |-> <<>>, errors |-> <<>>,
     updates |-> NoUpdates, analytics |-> {}, recentClicks |-> <<>>]

\* the requests being handled
InFlight == {q \in Reqs : req[q].pc \notin {"idle", "done"}}

\* requests arrive in the order of their numbers, while fewer than
\* MaxInFlight are being handled
MayArrive(r) ==
    /\ req[r].pc = "idle"
    /\ Cardinality(InFlight) < MaxInFlight
    /\ IF r = 1 THEN TRUE ELSE req[r - 1].pc # "idle"

\* res.status(code).send/json: one more response on the wire
Respond(r, code) ==
    [req[r] EXCEPT !.status = code, !.sent = @ + 1, !.pc = "done"]

\* requireAuth: no req.user, 401 before the route reads anything
Unauthorized(kind) ==
    [IdleReq EXCEPT !.kind = kind, !.status = 401, !.sent = 1, !.pc = "done"]

Tick ==
    /\ now < MaxTime
    /\ now' = now + 1
    /\ UNCHANGED <<urls, urlClicks, urlAnalytics, faults, req>>

---------------------------------------------------------------------------
(* GET /:shortCode *)

\* the short codes that clients ask for
RequestedCodes == {CodeA, CodeB}

RedirectArrive(r) ==
    /\ MayArrive(r)
    /\ \E code \in RequestedCodes :
          req' = [req EXCEPT ![r] = [IdleReq EXCEPT !.kind = "redirect",
                                                    !.pc = "getUrl",
                                                    !.shortCode = code]]
    /\ UNCHANGED <<urls, urlClicks, urlAnalytics, now, faults>>

\* const url = await storage.getUrl(shortCode); if (!url) return 404
RedirectLookup(r) ==
    /\ req[r].kind = "redirect" /\ req[r].pc = "getUrl"
    /\ LET found == getUrl(req[r].shortCode)
       IN  IF found = {}
           THEN req' = [req EXCEPT ![r] = [Respond(r, 404) EXCEPT !.lookup = "none"]]
           ELSE \E id \in found :
                   req' = [req EXCEPT ![r] = [@ EXCEPT !.lookup = "found",
                                                       !.urlId = id,
                                                       !.pc = "recordClick"]]
    /\ UNCHANGED <<urls, urlClicks, urlAnalytics, now, faults>>

\* the row the route hands to recordClick, with clicked_at defaultNow()
ClickRow(urlId, client, t) ==
    LET ua == parseUserAgent(client.userAgent)
    IN  [urlId |-> urlId, ipAddress |-> client.ip, userAgent |-> client.userAgent,
         referer |-> IF client.referer = <<>> THEN NoReferer ELSE client.referer,
         country |-> "US", device |-> ua.device, browser |-> ua.browser, os |-> ua.os,
         clickedAt |-> t]

\* the insert as it would be if url_clicks kept the latest click of each link
InsertClickKeepsLatest(clicks, row) ==
    Append(SelectSeq(clicks, LAMBDA c : c.urlId # row.urlId), row)

\* the insert as it would be if url_clicks held one row per link and visitor
InsertClickOncePerVisitor(clicks, row) ==
    IF \E i \in 1..Len(clicks) :
          clicks[i].urlId = row.urlId /\ clicks[i].ipAddress = row.ipAddress
    THEN clicks
    ELSE Append(clicks, row)

\* db.insert(urlClicks).values(insertClick): the table after the INSERT
InsertClick(clicks, row) == Append(clicks, row)

\* recordClick: await db.insert(urlClicks).values(insertClick)
RecordClickInsert(r) ==
    /\ req[r].kind = "redirect" /\ req[r].pc = "recordClick"
    /\ \E client \in Clients :
          urlClicks' = InsertClick(urlClicks, ClickRow(req[r].urlId, client, now))
    /\ req' = [req EXCEPT ![r].pc = "updateUrlAnalytics"]
    /\ UNCHANGED <<urls, urlAnalytics, now, faults>>

\* the handler as it would be if its SELECT saw the log without the newest row
AfterSelectStale(r, rows) ==
    LET seen == SubSeq(rows, 1, Len(rows) - 1)
    IN  IF Len(seen) > 0
        THEN [req[r] EXCEPT !.data = Aggregate(seen), !.pc = "upsert"]
        ELSE [Respond(r, 301) EXCEPT !.location = urls[req[r].urlId].originalUrl]

\* what the handler does with the rows the aggregation SELECT returned
AfterSelect(r, rows) ==
    IF Len(rows) > 0
    THEN [req[r] EXCEPT !.data = Aggregate(rows), !.pc = "upsert"]
    ELSE [Respond(r, 301) EXCEPT !.location = urls[req[r].urlId].originalUrl]

\* updateUrlAnalytics: the SELECT over url_clicks
UpdateAnalyticsSelect(r) ==
    /\ req[r].kind = "redirect" /\ req[r].pc = "updateUrlAnalytics"
    /\ req' = [req EXCEPT ![r] = AfterSelect(r, ClicksOf(urlClicks, req[r].urlId))]
    /\ UNCHANGED <<urls, urlClicks, urlAnalytics, now, faults>>

\* the upsert as it would be if it wrote the values to the row of every link
UpsertAll(analytics, urlId, data, t) ==
    [id \in DOMAIN analytics \cup {urlId} |-> UpsertRow(data, t)]

\* the table url_analytics after the upsert of `data` for urlId
Upsert(analytics, urlId, data, t) ==
    [id \in DOMAIN analytics \cup {urlId} |->
        IF id = urlId THEN UpsertRow(data, t) ELSE analytics[id]]

\* updateUrlAnalytics: the upsert; then recordClick returns and the route
\* answers res.redirect(301, url.originalUrl)
UpdateAnalyticsUpsert(r) ==
    /\ req[r].kind = "redirect" /\ req[r].pc = "upsert"
    /\ urlAnalytics' = Upsert(urlAnalytics, req[r].urlId, req[r].data, now)
    /\ req' = [req EXCEPT ![r] =
                  [Respond(r, 301) EXCEPT !.location = urls[req[r].urlId].originalUrl]]
    /\ UNCHANGED <<urls, urlClicks, now, faults>>

\* a storage call of the route throws: catch (error) { res.status(500) }
RedirectFault(r) ==
    /\ req[r].kind = "redirect"
    /\ req[r].pc \in {"getUrl", "recordClick", "updateUrlAnalytics", "upsert"}
    /\ faults < MaxFaults
    /\ faults' = faults + 1
    /\ req' = [req EXCEPT ![r] =
                  [Respond(r, 500) EXCEPT
                      !.lookup = IF req[r].pc = "getUrl" THEN "failed" ELSE @]]
    /\ UNCHANGED <<urls, urlClicks, urlAnalytics, now>>

RedirectStep(r) ==
    \/ RedirectLookup(r)
    \/ RecordClickInsert(r)
    \/ UpdateAnalyticsSelect(r)
    \/ UpdateAnalyticsUpsert(r)

---------------------------------------------------------------------------
(* POST /api/urls and POST /api/urls/bulk *)

\* insertUrlSchema / bulkUrlSchema: customAlias, when given, has 3 to 50
\* characters of the alias alphabet
ValidAlias(alias) ==
    /\ Len(alias) >= AliasMinLen
    /\ Len(alias) <= AliasMaxLen
    /\ \A i \in DOMAIN alias : alias[i] \in AliasAlphabet

ValidItem(item) == item.customAlias = NoAlias \/ ValidAlias(item.customAlias)

\* the alias check as it would be over the custom_alias column
checkCustomAliasColumn(alias) ==
    \E i \in UrlIds : urls[i].customAlias = alias /\ urls[i].isActive

\* checkCustomAlias: is there an active row with this short code
checkCustomAlias(alias) ==
    \E i \in UrlIds : urls[i].shortCode = alias /\ urls[i].isActive

\* the values of nanoid(8)
GeneratedCodes == {CodeA, CodeB}

\* the request bodies of POST /api/urls
Items ==
    { [originalUrl |-> TargetA, customAlias |-> NoAlias],
      [originalUrl |-> TargetA, customAlias |-> AliasPromo],
      [originalUrl |-> TargetB, customAlias |-> AliasPromo],
      [originalUrl |-> TargetB, customAlias |-> CodeA] }

\* the bodies of POST /api/urls/bulk
Batches ==
    { << [originalUrl |-> TargetA, customAlias |-> NoAlias],
         [originalUrl |-> TargetB, customAlias |-> AliasPromo] >>,
      << [originalUrl |-> TargetA, customAlias |-> AliasPromo],
         [originalUrl |-> TargetB, customAlias |-> NoAlias] >> }

\* who sends POST /api/urls (authentication is optional), and who sends the
\* routes behind requireAuth
Creators == {"u1", Anon}
Callers == Users \cup {Anon}

\* the item a create or bulk handler is working on
CurrentItem(r) == req[r].items[req[r].idx]

\* where an item starts: the alias check when it has an alias, else createUrl
ItemStartPc(item) == IF item.customAlias # NoAlias THEN "checkAlias" ELSE "insertUrl"

\* the bulk loop moves to its next item, or answers res.json({ results, errors })
BulkAdvance(rec) ==
    IF rec.idx = Len(rec.items)
    THEN [rec EXCEPT !.status = 200, !.sent = @ + 1, !.pc = "done"]
    ELSE [rec EXCEPT !.idx = @ + 1, !.pc = ItemStartPc(rec.items[rec.idx + 1])]

\* the failure of an item as it would be without the try/catch inside the loop
ItemFailedAborts(r, status, message) == Respond(r, status)

\* the current item ends without a link: POST /api/urls answers `status`,
\* the bulk loop pushes to errors and goes on
ItemFailed(r, status, message) ==
    IF req[r].kind = "create"
    THEN Respond(r, status)
    ELSE BulkAdvance([req[r] EXCEPT !.errors =
             Append(@, [originalUrl |-> CurrentItem(r).originalUrl, error |-> message])])

\* the current item ends with link `id` created: POST /api/urls answers
\* res.json(...), the bulk loop pushes to results and goes on
ItemCreated(r, id) ==
    IF req[r].kind = "create"
    THEN [Respond(r, 200) EXCEPT !.urlId = id]
    ELSE BulkAdvance([req[r] EXCEPT !.results =
             Append(@, [originalUrl |-> CurrentItem(r).originalUrl, id |-> id])])

\* POST /api/urls: insertUrlSchema.parse(req.body); a ZodError answers 400
PostUrl(user, item) ==
    IF ValidItem(item)
    THEN [IdleReq EXCEPT !.kind = "create", !.user = user,
                         !.items = <<item>>, !.idx = 1,
                         !.pc = ItemStartPc(item)]
    ELSE [IdleReq EXCEPT !.kind = "create", !.user = user,
                         !.items = <<item>>, !.idx = 1,
                         !.status = 400, !.sent = 1, !.pc = "done"]

CreateArrive(r) ==
    /\ MayArrive(r)
    /\ \E user \in Creators, item \in Items :
          req' = [req EXCEPT ![r] = PostUrl(user, item)]
    /\ UNCHANGED <<urls, urlClicks, urlAnalytics, now, faults>>

\* POST /api/urls/bulk: requireAuth, then bulkUrlSchema.parse(req.body)
BulkArrive(r) ==
    /\ MayArrive(r)
    /\ \E user \in Creators, batch \in Batches :
          req' = [req EXCEPT ![r] =
                    IF user = Anon
                    THEN Unauthorized("bulk")
                    ELSE IF \A i \in DOMAIN batch : ValidItem(batch[i])
                    THEN [IdleReq EXCEPT !.kind = "bulk", !.user = user,
                                         !.items = batch, !.idx = 1,
                                         !.pc = ItemStartPc(batch[1])]
                    ELSE [IdleReq EXCEPT !.kind = "bulk", !.user = user,
                                         !.items = batch,
                                         !.status = 400, !.sent = 1, !.pc = "done"]]
    /\ UNCHANGED <<urls, urlClicks, urlAnalytics, now, faults>>

\* const isAliasUsed = await storage.checkCustomAlias(customAlias)
CreateCheckAlias(r) ==
    /\ req[r].kind \in {"create", "bulk"} /\ req[r].pc = "checkAlias"
    /\ req' = [req EXCEPT ![r] =
                  IF checkCustomAlias(CurrentItem(r).customAlias)
                  THEN ItemFailed(r, 400, "Custom alias is already taken")
                  ELSE [@ EXCEPT !.pc = "insertUrl"]]
    /\ UNCHANGED <<urls, urlClicks, urlAnalytics, now, faults>>

\* the short codes the item may be stored under: customAlias || nanoid(8)
ShortCodeFor(item) ==
    IF item.customAlias # NoAlias THEN {item.customAlias} ELSE GeneratedCodes

\* the INSERT into urls as it would be accepted without UNIQUE on short_code
InsertAcceptedWithoutUnique(rows, code, alias) ==
    /\ Len(code) <= ShortCodeColumnLen
    /\ Len(alias) <= CustomAliasColumnLen

\* the INSERT into urls is accepted: short_code is unique and the values fit
\* their columns
InsertAccepted(rows, code, alias) ==
    /\ ~ShortCodeTaken(rows, code)
    /\ Len(code) <= ShortCodeColumnLen
    /\ Len(alias) <= CustomAliasColumnLen

\* createUrl: the INSERT into urls (after generateQRCode, which touches no
\* table); a rejected INSERT throws
CreateInsertUrl(r) ==
    /\ req[r].kind \in {"create", "bulk"} /\ req[r].pc = "insertUrl"
    /\ \E code \in ShortCodeFor(CurrentItem(r)) :
          IF InsertAccepted(urls, code, CurrentItem(r).customAlias)
          THEN /\ urls' = Append(urls,
                      UrlRow(Len(urls) + 1, CurrentItem(r).originalUrl, code,
                             CurrentItem(r).customAlias, req[r].user, TRUE, now))
               /\ req' = [req EXCEPT ![r] = [@ EXCEPT !.created = Append(@, Len(urls) + 1),
                                                      !.shortCode = code,
                                                      !.pc = "insertAnalytics"]]
          ELSE /\ urls' = urls
               /\ req' = [req EXCEPT ![r] = ItemFailed(r, 500, "insert rejected")]
    /\ UNCHANGED <<urlClicks, urlAnalytics, now, faults>>

\* the id of the row the handler has just inserted into urls
LastCreated(r) == req[r].created[Len(req[r].created)]

\* createUrl: the INSERT into url_analytics (url_id is unique), then the answer
CreateInsertAnalytics(r) ==
    /\ req[r].kind \in {"create", "bulk"} /\ req[r].pc = "insertAnalytics"
    /\ IF LastCreated(r) \in DOMAIN urlAnalytics
       THEN /\ urlAnalytics' = urlAnalytics
            /\ req' = [req EXCEPT ![r] = ItemFailed(r, 500, "insert rejected")]
       ELSE /\ urlAnalytics' =
                  [id \in DOMAIN urlAnalytics \cup {LastCreated(r)} |->
                      IF id = LastCreated(r) THEN EmptyAnalytics(now) ELSE urlAnalytics[id]]
            /\ req' = [req EXCEPT ![r] = ItemCreated(r, LastCreated(r))]
    /\ UNCHANGED <<urls, urlClicks, now, faults>>

\* checkCustomAlias, generateQRCode or an INSERT of createUrl throws: the
\* route's catch answers 500, the bulk loop's catch pushes to errors
CreateFault(r) ==
    /\ req[r].kind \in {"create", "bulk"}
    /\ req[r].pc \in {"checkAlias", "insertUrl", "insertAnalytics"}
    /\ faults < MaxFaults
    /\ faults' = faults + 1
    /\ req' = [req EXCEPT ![r] = ItemFailed(r, 500, "call failed")]
    /\ UNCHANGED <<urls, urlClicks, urlAnalytics, now>>

CreateStep(r) ==
    \/ CreateCheckAlias(r)
    \/ CreateInsertUrl(r)
    \/ CreateInsertAnalytics(r)

---------------------------------------------------------------------------
(* PUT /api/urls/:id and DELETE /api/urls/:id *)

\* the request bodies of PUT /api/urls/:id (req.body goes to updateUrl as it is)
PutBodies ==
    { [NoUpdates EXCEPT !.customAlias = AliasPromo],
      [NoUpdates EXCEPT !.shortCode = CodeA],
      [NoUpdates EXCEPT !.originalUrl = TargetB, !.isActive = {TRUE}] }

\* the ids a PUT or DELETE may name: a row of urls, or none
NamedIds == UrlIds \cup {Len(urls) + 1}

PutArrive(r) ==
    /\ MayArrive(r)
    /\ \E user \in Callers, id \in NamedIds, body \in PutBodies :
          req' = [req EXCEPT ![r] =
                    IF user = Anon
                    THEN Unauthorized("put")
                    ELSE [IdleReq EXCEPT !.kind = "put", !.user = user, !.urlId = id,
                                         !.updates = body, !.pc = "getUrlById"]]
    /\ UNCHANGED <<urls, urlClicks, urlAnalytics, now, faults>>

DeleteArrive(r) ==
    /\ MayArrive(r)
    /\ \E user \in Callers, id \in NamedIds :
          req' = [req EXCEPT ![r] =
                    IF user = Anon
                    THEN Unauthorized("delete")
                    ELSE [IdleReq EXCEPT !.kind = "delete", !.user = user, !.urlId = id,
                                         !.pc = "getUrlById"]]
    /\ UNCHANGED <<urls, urlClicks, urlAnalytics, now, faults>>

\* the check as it would be without the comparison of url.userId
UrlExists(id, user) == id \in UrlIds

\* the ownership check as it would be if getUrlById returned active rows only
OwnedAndActive(id, user) ==
    id \in UrlIds /\ urls[id].userId = user /\ urls[id].isActive

\* if (!url || url.userId !== req.user.id) return 404
OwnedBy(id, user) == id \in UrlIds /\ urls[id].userId = user

\* PUT: getUrlById and the ownership check; an alias that differs from the
\* row's goes to the alias check
PutGetUrl(r) ==
    /\ req[r].kind = "put" /\ req[r].pc = "getUrlById"
    /\ req' = [req EXCEPT ![r] =
                  IF ~OwnedBy(req[r].urlId, req[r].user)
                  THEN Respond(r, 404)
                  ELSE IF /\ req[r].updates.customAlias # NoAlias
                          /\ req[r].updates.customAlias # urls[req[r].urlId].customAlias
                  THEN [@ EXCEPT !.pc = "checkAlias"]
                  ELSE [@ EXCEPT !.pc = "updateUrl"]]
    /\ UNCHANGED <<urls, urlClicks, urlAnalytics, now, faults>>

\* PUT: checkCustomAlias; a free alias becomes updates.shortCode
PutCheckAlias(r) ==
    /\ req[r].kind = "put" /\ req[r].pc = "checkAlias"
    /\ req' = [req EXCEPT ![r] =
                  IF checkCustomAlias(req[r].updates.customAlias)
                  THEN Respond(r, 400)
                  ELSE [@ EXCEPT !.updates.shortCode = req[r].updates.customAlias,
                                 !.pc = "updateUrl"]]
    /\ UNCHANGED <<urls, urlClicks, urlAnalytics, now, faults>>

\* updateUrl: the row with ...updates and updatedAt: new Date() set
UpdatedRow(row, updates, t) ==
    [row EXCEPT
        !.updatedAt = t,
        !.customAlias = IF updates.customAlias # NoAlias THEN updates.customAlias ELSE @,
        !.shortCode = IF updates.shortCode # NoAlias THEN updates.shortCode ELSE @,
        !.originalUrl = IF updates.originalUrl # "" THEN updates.originalUrl ELSE @,
        !.isActive = IF updates.isActive # {} THEN TRUE \in updates.isActive ELSE @]

\* the UPDATE as it would be accepted without UNIQUE on short_code
UpdateAcceptedWithoutUnique(rows, id, row) ==
    /\ Len(row.shortCode) <= ShortCodeColumnLen
    /\ Len(row.customAlias) <= CustomAliasColumnLen

\* the UPDATE of row id is accepted: short_code stays unique and the values
\* fit their columns
UpdateAccepted(rows, id, row) ==
    /\ \A i \in DOMAIN rows : i # id => rows[i].shortCode # row.shortCode
    /\ Len(row.shortCode) <= ShortCodeColumnLen
    /\ Len(row.customAlias) <= CustomAliasColumnLen

\* PUT: await storage.updateUrl(id, updates), then the answer
PutUpdate(r) ==
    /\ req[r].kind = "put" /\ req[r].pc = "updateUrl"
    /\ LET id == req[r].urlId
           row == UpdatedRow(urls[id], req[r].updates, now)
       IN  IF UpdateAccepted(urls, id, row)
           THEN /\ urls' = [urls EXCEPT ![id] = row]
                /\ req' = [req EXCEPT ![r] = Respond(r, 200)]
           ELSE /\ urls' = urls
                /\ req' = [req EXCEPT ![r] = Respond(r, 500)]
    /\ UNCHANGED <<urlClicks, urlAnalytics, now, faults>>

\* DELETE: getUrlById and the ownership check
DeleteGetUrl(r) ==
    /\ req[r].kind = "delete" /\ req[r].pc = "getUrlById"
    /\ req' = [req EXCEPT ![r] =
                  IF ~OwnedBy(req[r].urlId, req[r].user)
                  THEN Respond(r, 404)
                  ELSE [@ EXCEPT !.pc = "deleteUrl"]]
    /\ UNCHANGED <<urls, urlClicks, urlAnalytics, now, faults>>

\* deleteUrl: UPDATE urls SET is_active = false WHERE id = ...
DeleteUrl(r) ==
    /\ req[r].kind = "delete" /\ req[r].pc = "deleteUrl"
    /\ urls' = [urls EXCEPT ![req[r].urlId].isActive = FALSE]
    /\ req' = [req EXCEPT ![r] = Respond(r, 200)]
    /\ UNCHANGED <<urlClicks, urlAnalytics, now, faults>>

\* a storage call of PUT or DELETE throws: catch (error) { res.status(500) }
ManageFault(r) ==
    /\ req[r].kind \in {"put", "delete"}
    /\ req[r].pc \in {"getUrlById", "checkAlias", "updateUrl", "deleteUrl"}
    /\ faults < MaxFaults
    /\ faults' = faults + 1
    /\ req' = [req EXCEPT ![r] = Respond(r, 500)]
    /\ UNCHANGED <<urls, urlClicks, urlAnalytics, now>>

ManageStep(r) ==
    \/ PutGetUrl(r)
    \/ PutCheckAlias(r)
    \/ PutUpdate(r)
    \/ DeleteGetUrl(r)
    \/ DeleteUrl(r)

---------------------------------------------------------------------------
(* Link management on a store that starts empty *)

InitLinks ==
    /\ urls = <<>>
    /\ urlClicks = <<>>
    /\ urlAnalytics = <<>>
    /\ now = 0
    /\ faults = 0
    /\ req = [r \in Reqs |-> IdleReq]

NextLinks ==
    \/ \E r \in Reqs : CreateArrive(r)
    \/ \E r \in Reqs : BulkArrive(r)
    \/ \E r \in Reqs : PutArrive(r)
    \/ \E r \in Reqs : DeleteArrive(r)
    \/ \E r \in Reqs : CreateStep(r)
    \/ \E r \in Reqs : ManageStep(r)
    \/ \E r \in Reqs : CreateFault(r)
    \/ \E r \in Reqs : ManageFault(r)

SpecLinks == InitLinks /\ [][NextLinks]_vars

\* POST /api/urls alone, on a store that starts empty
NextCreate ==
    \/ \E r \in Reqs : CreateArrive(r)
    \/ \E r \in Reqs : CreateStep(r)
    \/ \E r \in Reqs : CreateFault(r)

SpecCreate == InitLinks /\ [][NextCreate]_vars

---------------------------------------------------------------------------
(* Properties of link management *)

\* C1: under any interleaving of POST /api/urls, POST /api/urls/bulk, PUT and
\* DELETE requests, no two active links have the same short code.
C1_ActiveShortCodesDistinct ==
    \A i, j \in UrlIds :
        (i # j /\ urls[i].isActive /\ urls[j].isActive) =>
            urls[i].shortCode # urls[j].shortCode

\* two active links exist, and a creation that passed its checks was turned
\* down by the INSERT (no call has thrown for another reason)
C1_Witness ==
    /\ \E i, j \in UrlIds : i # j /\ urls[i].isActive /\ urls[j].isActive
    /\ faults = 0
    /\ \E r \in Reqs :
          /\ req[r].kind = "create" /\ req[r].status = 500
          /\ req[r].created = <<>>

\* POST /api/urls request r carries custom alias a
CreatesAlias(r, a) ==
    /\ req[r].kind = "create"
    /\ req[r].items[1].customAlias = a

\* C2: of two POST /api/urls requests with the same custom alias at most one
\* is answered with success; the other is answered with an error and has
\* inserted no link row.
C2_SameAliasOneSuccess ==
    \A r1, r2 \in Reqs :
        (/\ r1 # r2
         /\ req[r1].kind = "create" /\ req[r2].kind = "create"
         /\ req[r1].items[1].customAlias # NoAlias
         /\ req[r1].items[1].customAlias = req[r2].items[1].customAlias
         /\ req[r1].pc = "done" /\ req[r2].pc = "done"
         /\ req[r1].status = 200) =>
            /\ req[r2].status \in {400, 500}
            /\ req[r2].created = <<>>

\* both requests passed the checkCustomAlias pre-check before either
\* inserted: one succeeded, the INSERT of the other was turned down
C2_Witness ==
    \E r1, r2 \in Reqs :
        /\ r1 # r2
        /\ CreatesAlias(r1, AliasPromo) /\ CreatesAlias(r2, AliasPromo)
        /\ req[r1].status = 200
        /\ req[r2].status = 500 /\ req[r2].created = <<>>
        /\ faults = 0
        /\ Cardinality({i \in UrlIds : urls[i].shortCode = AliasPromo}) = 1

---------------------------------------------------------------------------
(* The click pipeline on a store that holds two links: link 1 active,      *)
(* link 2 retired by DELETE, each with the empty analytics row of          *)
(* createUrl.                                                              *)

InitClicks ==
    /\ urls = <<UrlRow(1, TargetA, CodeA, NoAlias, "u1", TRUE, 0),
                UrlRow(2, TargetB, CodeB, NoAlias, "u2", FALSE, 0)>>
    /\ urlClicks = <<>>
    /\ urlAnalytics = [id \in {1, 2} |-> EmptyAnalytics(0)]
    /\ now = 0
    /\ faults = 0
    /\ req = [r \in Reqs |-> IdleReq]

NextClicks ==
    \/ Tick
    \/ \E r \in Reqs : RedirectArrive(r)
    \/ \E r \in Reqs : RedirectStep(r)
    \/ \E r \in Reqs : RedirectFault(r)

SpecClicks == InitClicks /\ [][NextClicks]_vars

\* handlers are scheduled fairly: a handler whose next statement can run runs it
FairClicks == SpecClicks /\ \A r \in Reqs : WF_vars(RedirectStep(r))

---------------------------------------------------------------------------
(* Properties of the click pipeline *)

RECURSIVE SumOver(_, _)
SumOver(f, keys) ==
    IF keys = {} THEN 0
    ELSE LET k == CHOOSE x \in keys : TRUE
         IN  f[k] + SumOver(f, keys \ {k})

\* the sum of the values of a dimensional map
SumMap(f) == SumOver(f, DOMAIN f)

\* a recordClick call (with its updateUrlAnalytics) is in flight
RecordingInFlight(r) == req[r].pc \in {"recordClick", "updateUrlAnalytics", "upsert"}

Quiescent == \A r \in Reqs : ~RecordingInFlight(r)

\* the snapshot of link id counts every click of the link
CountsEveryClick(id) ==
    urlAnalytics[id].totalClicks = Len(ClicksOf(urlClicks, id))

\* C3: at every quiescent point (no recordClick or updateUrlAnalytics in
\* flight) each snapshot's totalClicks is the number of click rows of its
\* link.  Stated for the runs in which no call has thrown, so that what
\* refutes it is an interleaving of redirect requests alone.
C3_QuiescentSnapshotCountsClicks ==
    (faults = 0 /\ Quiescent) =>
        \A id \in DOMAIN urlAnalytics : CountsEveryClick(id)

\* C4: of two concurrent recomputations of one link, the one whose read saw
\* fewer events never overwrites the snapshot written by the one whose read
\* saw more: no upsert replaces a snapshot by one that counts fewer events.
C4_NoStaleOverwrite ==
    [][\A r \in Reqs :
          (UpdateAnalyticsUpsert(r) /\ req[r].urlId \in DOMAIN urlAnalytics) =>
              req[r].data.totalClicks >= urlAnalytics[req[r].urlId].totalClicks]_vars

\* the snapshot of link id was written by updateUrlAnalytics (the aggregation
\* returns a row only for a link with clicks, createUrl writes totalClicks 0)
WrittenByAggregator(id) == urlAnalytics[id].totalClicks > 0

\* C5: in every snapshot written by updateUrlAnalytics the values of each of
\* the four dimensional maps sum to totalClicks, also when events carry NULL
\* in the column and fall under the "Unknown"/"Direct" key.
C5_DimensionSumsEqualTotal ==
    \A id \in DOMAIN urlAnalytics :
        WrittenByAggregator(id) =>
            /\ SumMap(urlAnalytics[id].clicksByCountry) = urlAnalytics[id].totalClicks
            /\ SumMap(urlAnalytics[id].clicksByDevice) = urlAnalytics[id].totalClicks
            /\ SumMap(urlAnalytics[id].clicksByBrowser) = urlAnalytics[id].totalClicks
            /\ SumMap(urlAnalytics[id].clicksByReferer) = urlAnalytics[id].totalClicks

\* request r is about to write its aggregate for the second time in a row:
\* the stored snapshot was computed from the click log as it is now, and so
\* was r's aggregate (the log of a link only grows, so equal counts mean
\* equal rows)
SecondRunInARow(r) ==
    /\ req[r].urlId \in DOMAIN urlAnalytics
    /\ urlAnalytics[req[r].urlId].totalClicks = Len(ClicksOf(urlClicks, req[r].urlId))
    /\ req[r].data.totalClicks = Len(ClicksOf(urlClicks, req[r].urlId))

\* a snapshot without its updatedAt column
DerivedFields(row) ==
    [totalClicks |-> row.totalClicks, uniqueClicks |-> row.uniqueClicks,
     clicksByCountry |-> row.clicksByCountry, clicksByDevice |-> row.clicksByDevice,
     clicksByBrowser |-> row.clicksByBrowser, clicksByReferer |-> row.clicksByReferer,
     dailyClicks |-> row.dailyClicks, lastClickAt |-> row.lastClickAt]

\* C6 as stated: a second updateUrlAnalytics run with no click appended in
\* between leaves the snapshot row identical to what the first run left.
C6_SecondRunLeavesRowIdentical ==
    [][\A r \in Reqs :
          (UpdateAnalyticsUpsert(r) /\ SecondRunInARow(r)) =>
              urlAnalytics'[req[r].urlId] = urlAnalytics[req[r].urlId]]_vars

\* C6 amended: a second updateUrlAnalytics run with no click appended in
\* between leaves every column of the snapshot except updatedAt identical
\* (totals, the four maps, the daily series and lastClickAt).
C6_SecondRunLeavesDerivedFields ==
    [][\A r \in Reqs :
          (UpdateAnalyticsUpsert(r) /\ SecondRunInARow(r)) =>
              DerivedFields(urlAnalytics'[req[r].urlId])
                  = DerivedFields(urlAnalytics[req[r].urlId])]_vars

\* two requests have each run updateUrlAnalytics to its end over the same
\* click log, the second one at a later time than any click
C6_Witness ==
    \E r1, r2 \in Reqs :
        /\ r1 # r2
        /\ req[r1].status = 301 /\ req[r2].status = 301
        /\ req[r1].urlId = req[r2].urlId
        /\ req[r1].data = req[r2].data
        /\ req[r1].data.totalClicks = Len(ClicksOf(urlClicks, req[r1].urlId))
        /\ urlAnalytics[req[r1].urlId] = UpsertRow(req[r1].data, now)
        /\ urlAnalytics[req[r1].urlId].lastClickAt < now

\* C7: for a request that resolved an active link, the 301 is dispatched
\* before the click is appended: once the click row of a request is in the
\* log, its response has been sent.
C7_RespondsBeforeAppend ==
    \A r \in Reqs :
        req[r].pc \in {"updateUrlAnalytics", "upsert"} => req[r].sent >= 1

\* C8: when the lookup succeeded, the client receives the 301 also when
\* recordClick or updateUrlAnalytics then fails; never a 500.
C8_RecorderFailureStillRedirects ==
    \A r \in Reqs :
        (req[r].pc = "done" /\ req[r].lookup = "found") =>
            /\ req[r].status = 301
            /\ req[r].location = urls[req[r].urlId].originalUrl

\* C9: every appended click is eventually counted in its link's snapshot:
\* from some point on every snapshot counts every click of its link.  Stated
\* for the runs in which no call throws.
C9_EveryClickEventuallyCounted ==
    <>[](faults = 0 => \A id \in DOMAIN urlAnalytics : CountsEveryClick(id))

\* C10: a finished GET /:shortCode has sent exactly one response: 301 to the
\* link's target exactly when the lookup returned a link, 404 when it
\* returned none, 500 when the lookup itself failed.
C10_OneOutcomePerLookup ==
    \A r \in Reqs :
        (req[r].kind = "redirect" /\ req[r].pc = "done") =>
            /\ req[r].sent = 1
            /\ req[r].status = 301 <=> req[r].lookup = "found"
            /\ req[r].lookup = "found" => req[r].location = urls[req[r].urlId].originalUrl
            /\ req[r].lookup = "none" => req[r].status = 404
            /\ req[r].lookup = "failed" => req[r].status = 500

---------------------------------------------------------------------------
(* The redirect lookup on a store whose links carry expires_at: createUrl  *)
(* stores the expires_at of the InsertUrl it is given.                     *)

\* the values of expires_at: NULL (never expires), or a time of the clock
ExpiryTimes == {NoTime} \cup 0..MaxTime

InitExpiry ==
    /\ \E e1, e2 \in ExpiryTimes :
          urls = <<[UrlRow(1, TargetA, CodeA, NoAlias, "u1", TRUE, 0) EXCEPT !.expiresAt = e1],
                   [UrlRow(2, TargetB, CodeB, NoAlias, "u2", TRUE, 0) EXCEPT !.expiresAt = e2]>>
    /\ urlClicks = <<>>
    /\ urlAnalytics = [id \in {1, 2} |-> EmptyAnalytics(0)]
    /\ now = 0
    /\ faults = 0
    /\ req = [r \in Reqs |-> IdleReq]

SpecExpiry == InitExpiry /\ [][NextClicks]_vars

\* a link whose expires_at has passed
Expired(row, t) == row.expiresAt # NoTime /\ row.expiresAt < t

\* C11: the redirect lookup returns a link only if the link is active and its
\* expiresAt is null or not yet passed: no lookup step finds a link that is
\* retired or expired at that moment.
C11_LookupSkipsExpired ==
    [][\A r \in Reqs :
          (RedirectLookup(r) /\ req'[r].lookup = "found") =>
              /\ urls[req'[r].urlId].isActive
              /\ ~Expired(urls[req'[r].urlId], now)]_vars

---------------------------------------------------------------------------
(* GET /api/urls/:id/analytics *)

\* getUrlClicks(url.id, 100): the limit the route passes
ClicksLimit == 100

Min(a, b) == IF a <= b THEN a ELSE b

\* the rows in the opposite order
Reverse(rows) == [i \in 1..Len(rows) |-> rows[Len(rows) + 1 - i]]

\* getUrlClicks: the rows of the link, ORDER BY clicked_at DESC LIMIT limit
\* (rows are inserted with a clicked_at that never decreases; rows of one
\* clicked_at are taken latest insertion first)
getUrlClicks(clicks, urlId, limit) ==
    LET rows == Reverse(ClicksOf(clicks, urlId))
    IN  SubSeq(rows, 1, Min(limit, Len(rows)))

\* getUrlAnalytics: the snapshot row of the link, as a set (empty: undefined)
getUrlAnalytics(urlId) ==
    IF urlId \in DOMAIN urlAnalytics THEN {urlAnalytics[urlId]} ELSE {}

AnalyticsArrive(r) ==
    /\ MayArrive(r)
    /\ \E user \in Callers, id \in NamedIds :
          req' = [req EXCEPT ![r] =
                    IF user = Anon
                    THEN Unauthorized("analytics")
                    ELSE [IdleReq EXCEPT !.kind = "analytics", !.user = user,
                                         !.urlId = id, !.pc = "getUrlById"]]
    /\ UNCHANGED <<urls, urlClicks, urlAnalytics, now, faults>>

\* getUrlById and the ownership check
AnalyticsGetUrl(r) ==
    /\ req[r].kind = "analytics" /\ req[r].pc = "getUrlById"
    /\ req' = [req EXCEPT ![r] =
                  IF ~OwnedBy(req[r].urlId, req[r].user)
                  THEN Respond(r, 404)
                  ELSE [@ EXCEPT !.pc = "getUrlAnalytics"]]
    /\ UNCHANGED <<urls, urlClicks, urlAnalytics, now, faults>>

\* const analytics = await storage.getUrlAnalytics(url.id)
AnalyticsGetSnapshot(r) ==
    /\ req[r].kind = "analytics" /\ req[r].pc = "getUrlAnalytics"
    /\ req' = [req EXCEPT ![r] = [@ EXCEPT !.analytics = getUrlAnalytics(req[r].urlId),
                                           !.pc = "getUrlClicks"]]
    /\ UNCHANGED <<urls, urlClicks, urlAnalytics, now, faults>>

\* const clicks = await storage.getUrlClicks(url.id, 100), then
\* res.json({ url, analytics, recentClicks: clicks })
AnalyticsGetClicks(r) ==
    /\ req[r].kind = "analytics" /\ req[r].pc = "getUrlClicks"
    /\ req' = [req EXCEPT ![r] =
                  [Respond(r, 200) EXCEPT
                      !.recentClicks = getUrlClicks(urlClicks, req[r].urlId, ClicksLimit)]]
    /\ UNCHANGED <<urls, urlClicks, urlAnalytics, now, faults>>

\* a storage call of the route throws: catch (error) { res.status(500) }
AnalyticsFault(r) ==
    /\ req[r].kind = "analytics"
    /\ req[r].pc \in {"getUrlById", "getUrlAnalytics", "getUrlClicks"}
    /\ faults < MaxFaults
    /\ faults' = faults + 1
    /\ req' = [req EXCEPT ![r] = Respond(r, 500)]
    /\ UNCHANGED <<urls, urlClicks, urlAnalytics, now>>

AnalyticsStep(r) ==
    \/ AnalyticsGetUrl(r)
    \/ AnalyticsGetSnapshot(r)
    \/ AnalyticsGetClicks(r)

---------------------------------------------------------------------------
(* Retiring links: DELETE, GET /:shortCode and GET /api/urls/:id/analytics *)
(* on a store that holds two active links of u1, link 1 never followed and *)
(* link 2 followed more often than one page of getUrlClicks holds.         *)

\* the click log of a link that was followed n times at time 0
BusyLog(urlId, n) ==
    [i \in 1..n |->
        ClickRow(urlId, [ip |-> "10.0.0.1", userAgent |-> UaChrome, referer |-> RefererNews], 0)]

InitRetire ==
    /\ urls = <<UrlRow(1, TargetA, CodeA, NoAlias, "u1", TRUE, 0),
                UrlRow(2, TargetB, CodeB, NoAlias, "u1", TRUE, 0)>>
    /\ urlClicks = BusyLog(2, ClicksLimit + 1)
    /\ urlAnalytics = [id \in {1, 2} |->
                          IF id = 1 THEN EmptyAnalytics(0)
                          ELSE UpsertRow(Aggregate(BusyLog(2, ClicksLimit + 1)), 0)]
    /\ now = 0
    /\ faults = 0
    /\ req = [r \in Reqs |-> IdleReq]

RetireStep(r) ==
    \/ DeleteGetUrl(r)
    \/ DeleteUrl(r)

\* DELETE: a storage call throws
RetireFault(r) == req[r].kind = "delete" /\ ManageFault(r)

NextRetire ==
    \/ Tick
    \/ \E r \in Reqs : DeleteArrive(r)
    \/ \E r \in Reqs : RedirectArrive(r)
    \/ \E r \in Reqs : AnalyticsArrive(r)
    \/ \E r \in Reqs : RetireStep(r)
    \/ \E r \in Reqs : RedirectStep(r)
    \/ \E r \in Reqs : AnalyticsStep(r)
    \/ \E r \in Reqs : RetireFault(r)
    \/ \E r \in Reqs : RedirectFault(r)
    \/ \E r \in Reqs : AnalyticsFault(r)

SpecRetire == InitRetire /\ [][NextRetire]_vars

\* request d is a DELETE that the owner of its link has been answered 200
RetiredBy(d) ==
    /\ req[d].kind = "delete" /\ req[d].status = 200
    /\ req[d].urlId \in UrlIds

\* every row of seq is among the rows of page
AllIn(seq, page) == \A i \in DOMAIN seq : \E j \in DOMAIN page : page[j] = seq[i]

\* C12: after a successful DELETE by the owner, a lookup of the link's code
\* by GET /:shortCode answers 404, and GET /api/urls/:id/analytics by the
\* owner answers 200 with a snapshot and with every click of the link (the log
\* only grows, so its rows include every click recorded before the DELETE).
C12_RetiredStillQueryable ==
    [][\A r, d \in Reqs :
          /\ (/\ RedirectLookup(r) /\ RetiredBy(d)
              /\ req[r].shortCode = urls[req[d].urlId].shortCode) =>
                 req'[r].status = 404
          /\ (/\ AnalyticsGetClicks(r) /\ RetiredBy(d)
              /\ req[r].urlId = req[d].urlId) =>
                 /\ req'[r].status = 200
                 /\ req'[r].analytics # {}
                 /\ Len(req'[r].recentClicks) = Len(ClicksOf(urlClicks, req[r].urlId))
                 /\ AllIn(ClicksOf(urlClicks, req[r].urlId), req'[r].recentClicks)]_vars

\* DELETE alone, on the store of one active and one retired link
NextDelete ==
    \/ Tick
    \/ \E r \in Reqs : DeleteArrive(r)
    \/ \E r \in Reqs : RetireStep(r)
    \/ \E r \in Reqs : RetireFault(r)

SpecDelete == InitClicks /\ [][NextDelete]_vars

\* request r is a DELETE of a link that is already retired, sent by its owner
DeleteOfRetired(r) ==
    /\ req[r].kind = "delete"
    /\ req[r].urlId \in UrlIds
    /\ urls[req[r].urlId].userId = req[r].user
    /\ ~urls[req[r].urlId].isActive

\* C13: a DELETE by the owner on a link that is already retired passes the
\* lookup, is answered 200, and leaves the three tables exactly as they were
\* (that is, as the first DELETE left them).
C13_SecondDeleteIsNoOp ==
    [][\A r \in Reqs :
          /\ (DeleteGetUrl(r) /\ DeleteOfRetired(r)) => req'[r].pc = "deleteUrl"
          /\ (DeleteUrl(r) /\ DeleteOfRetired(r)) =>
                 /\ req'[r].status = 200
                 /\ urls' = urls
                 /\ urlClicks' = urlClicks
                 /\ urlAnalytics' = urlAnalytics]_vars

\* two DELETE requests of the owner for one link have both been answered 200,
\* the second one sent after the first was answered and at a later time
C13_Witness ==
    /\ req[1].kind = "delete" /\ req[1].status = 200
    /\ req[2].kind = "delete" /\ req[2].status = 200
    /\ req[1].urlId = req[2].urlId
    /\ req[1].urlId \in UrlIds
    /\ ~urls[req[1].urlId].isActive
    /\ urls[req[1].urlId].updatedAt < now
    /\ faults = 0

---------------------------------------------------------------------------
(* Link management on the store of one active and one retired link: link 2 *)
(* was retired while it held short code CodeB and target TargetB.          *)

SpecManage == InitClicks /\ [][NextLinks]_vars

\* C14: once the link with short code CodeB has been retired, no later create,
\* bulk create or PUT makes CodeB resolve to a target other than the one the
\* link had when it was retired.
C14_RetiredCodeKeepsTarget ==
    \A i \in getUrl(CodeB) : urls[i].originalUrl = TargetB

\* C15: the short code of a link never changes after the link is created: no
\* step changes the shortCode of an existing row.
C15_ShortCodeImmutable ==
    [][\A i \in UrlIds : urls'[i].shortCode = urls[i].shortCode]_vars

---------------------------------------------------------------------------
(* Properties of link creation *)

\* an active link is stored under short code a
ActiveUnder(a) == \E i \in UrlIds : urls[i].isActive /\ urls[i].shortCode = a

\* C16: a POST /api/urls whose customAlias is the short code of an active
\* link fails at the alias check: it is answered 400, inserts no link row and
\* no snapshot row, and the store is unchanged (the check itself not failing).
C16_TakenAliasRejected ==
    [][\A r \in Reqs :
          (/\ req[r].kind = "create" /\ req[r].pc = "checkAlias"
           /\ ActiveUnder(CurrentItem(r).customAlias)
           /\ req'[r] # req[r]
           /\ faults' = faults) =>
              /\ req'[r].pc = "done" /\ req'[r].status = 400 /\ req'[r].sent = 1
              /\ req'[r].created = <<>>
              /\ urls' = urls
              /\ urlAnalytics' = urlAnalytics
              /\ urlClicks' = urlClicks]_vars

\* a POST with alias promo was answered 200, a later one with the same alias
\* 400, and the store holds the one link
C16_Witness ==
    /\ CreatesAlias(1, AliasPromo) /\ req[1].status = 200
    /\ CreatesAlias(2, AliasPromo) /\ req[2].status = 400
    /\ req[2].created = <<>>
    /\ faults = 0
    /\ Len(urls) = 1 /\ DOMAIN urlAnalytics = {1}

\* C17: a creation without alias whose generated code collides with a stored
\* code is not failed by that collision: it regenerates and retries (at least
\* 5 attempts) before it fails.  The handler calls createUrl once
\* (routes.ts:127), so every INSERT step is the first attempt of its request,
\* and the first attempt must not end in the 500 answer.
C17_CollisionIsRetried ==
    [][\A r \in Reqs :
          (/\ CreateInsertUrl(r)
           /\ req[r].kind = "create"
           /\ CurrentItem(r).customAlias = NoAlias) =>
              req'[r].status # 500]_vars

\* no creation is between its two inserts
NoCreateInFlight == \A r \in Reqs : req[r].pc # "insertAnalytics"

\* C18: every persisted link has its snapshot row, also after a failure
\* between the two inserts of createUrl (stated for the states in which no
\* createUrl is between its two inserts).
C18_EveryLinkHasSnapshot ==
    NoCreateInFlight => \A i \in UrlIds : i \in DOMAIN urlAnalytics

---------------------------------------------------------------------------
(* The whole service on the store of one active and one retired link:      *)
(* GET /:shortCode together with create, bulk create, PUT and DELETE.      *)

NextService ==
    \/ NextLinks
    \/ NextClicks

SpecService == InitClicks /\ [][NextService]_vars

\* C19: the click log is append-only and links are never removed: every step
\* keeps every row of url_clicks in its place with unchanged fields, and keeps
\* every row of urls (a retired row stays, with its id).
C19_ClickLogAppendOnly ==
    [][/\ Len(urlClicks') >= Len(urlClicks)
       /\ \A i \in DOMAIN urlClicks : urlClicks'[i] = urlClicks[i]
       /\ \A i \in UrlIds : i \in DOMAIN urls' /\ urls'[i].id = urls[i].id]_vars

\* a link that has been followed was retired by DELETE: its click is still
\* in the log and its row is still in urls
C19_Witness ==
    /\ Len(urlClicks) >= 1
    /\ \E d \in Reqs :
          /\ req[d].kind = "delete" /\ req[d].status = 200
          /\ urlClicks[1].urlId = req[d].urlId
          /\ ~urls[req[d].urlId].isActive

---------------------------------------------------------------------------
(* POST /api/urls and POST /api/urls/bulk on a store that starts empty *)

NextBulk ==
    \/ \E r \in Reqs : CreateArrive(r)
    \/ \E r \in Reqs : BulkArrive(r)
    \/ \E r \in Reqs : CreateStep(r)
    \/ \E r \in Reqs : CreateFault(r)

SpecBulk == InitLinks /\ [][NextBulk]_vars

\* request r is a bulk request that passed requireAuth and the schema
BulkAccepted(r) == req[r].kind = "bulk" /\ req[r].status \notin {400, 401}

\* C20: in POST /api/urls/bulk the failure of an item (alias taken, or an
\* error thrown while creating it) does not abort the batch: the loop goes
\* through every item, each item ends in results or in errors, every link in
\* results is persisted with its snapshot, and the request is answered 200
\* with results and errors, never 500.
C20_BulkIsolatesItemFailures ==
    \A r \in Reqs :
        BulkAccepted(r) =>
            /\ req[r].pc # "done" =>
                  /\ req[r].status = 0
                  /\ Len(req[r].results) + Len(req[r].errors) = req[r].idx - 1
            /\ req[r].pc = "done" =>
                  /\ req[r].status = 200 /\ req[r].sent = 1
                  /\ Len(req[r].results) + Len(req[r].errors) = Len(req[r].items)
            /\ \A k \in DOMAIN req[r].results :
                  /\ req[r].results[k].id \in UrlIds
                  /\ req[r].results[k].id \in DOMAIN urlAnalytics
                  /\ urls[req[r].results[k].id].originalUrl = req[r].results[k].originalUrl

\* a bulk request of two items was answered 200 with its first item in errors
\* and its second item in results
C20_Witness ==
    \E r \in Reqs :
        /\ BulkAccepted(r) /\ req[r].pc = "done" /\ req[r].status = 200
        /\ Len(req[r].items) = 2
        /\ Len(req[r].errors) = 1 /\ Len(req[r].results) = 1
        /\ req[r].errors[1].originalUrl = req[r].items[1].originalUrl
        /\ req[r].results[1].originalUrl = req[r].items[2].originalUrl

---------------------------------------------------------------------------
(* Properties of the answers *)

\* the originalUrl column of a list of items, results or errors
OriginalUrls(list) == [k \in DOMAIN list |-> list[k].originalUrl]

\* s is t with some entries left out, the others in their order
RECURSIVE IsSubSeq(_, _)
IsSubSeq(s, t) ==
    IF s = <<>> THEN TRUE
    ELSE IF t = <<>> THEN FALSE
    ELSE IF Head(s) = Head(t) THEN IsSubSeq(Tail(s), Tail(t))
    ELSE IsSubSeq(s, Tail(t))

\* C21: a finished POST /api/urls/bulk with N valid items has each item in
\* exactly one of results and errors (N entries together), has inserted a
\* link row exactly for the items in results, and keeps the order of the
\* input within each list.
C21_BulkListsMatchItems ==
    \A r \in Reqs :
        (BulkAccepted(r) /\ req[r].pc = "done") =>
            /\ Len(req[r].results) + Len(req[r].errors) = Len(req[r].items)
            /\ \A k \in DOMAIN req[r].items :
                  (\E i \in DOMAIN req[r].results :
                        req[r].results[i].originalUrl = req[r].items[k].originalUrl)
                  # (\E j \in DOMAIN req[r].errors :
                        req[r].errors[j].originalUrl = req[r].items[k].originalUrl)
            /\ req[r].created = [k \in DOMAIN req[r].results |-> req[r].results[k].id]
            /\ IsSubSeq(OriginalUrls(req[r].results), OriginalUrls(req[r].items))
            /\ IsSubSeq(OriginalUrls(req[r].errors), OriginalUrls(req[r].items))

---------------------------------------------------------------------------
(* The routes behind the ownership check, on the store of one link of u1   *)
(* and one of u2                                                           *)

NextOwner ==
    \/ \E r \in Reqs : AnalyticsArrive(r)
    \/ \E r \in Reqs : PutArrive(r)
    \/ \E r \in Reqs : DeleteArrive(r)
    \/ \E r \in Reqs : AnalyticsStep(r)
    \/ \E r \in Reqs : ManageStep(r)
    \/ \E r \in Reqs : AnalyticsFault(r)
    \/ \E r \in Reqs : ManageFault(r)

SpecOwner == InitClicks /\ [][NextOwner]_vars

\* what the client sees of a response
Response(rec) ==
    [status |-> rec.status, sent |-> rec.sent, location |-> rec.location,
     analytics |-> rec.analytics, recentClicks |-> rec.recentClicks]

\* res.status(404).json({ message: "URL not found" })
NotFoundResponse ==
    [status |-> 404, sent |-> 1, location |-> "", analytics |-> {}, recentClicks |-> <<>>]

\* request r is at the ownership check with an id that names no link, or one
\* that names a link of another user
AtCheckUnknown(r) ==
    /\ req[r].kind \in {"analytics", "put", "delete"} /\ req[r].pc = "getUrlById"
    /\ req[r].urlId \notin UrlIds

AtCheckForeign(r) ==
    /\ req[r].kind \in {"analytics", "put", "delete"} /\ req[r].pc = "getUrlById"
    /\ req[r].urlId \in UrlIds
    /\ urls[req[r].urlId].userId # req[r].user

\* C22: on GET /api/urls/:id/analytics, PUT and DELETE /api/urls/:id a
\* request for a link of another user gets the very response of a request for
\* an id that does not exist (404, the same body), and the step leaves the
\* three tables unchanged.
C22_ForeignLooksUnknown ==
    [][\A r \in Reqs :
          ((AtCheckUnknown(r) \/ AtCheckForeign(r))
              /\ req'[r] # req[r] /\ faults' = faults) =>
                 /\ req'[r].pc = "done"
                 /\ Response(req'[r]) = NotFoundResponse
                 /\ urls' = urls
                 /\ urlClicks' = urlClicks
                 /\ urlAnalytics' = urlAnalytics]_vars

\* two requests of one kind by u1 were answered, one for the link of u2 and
\* one for an id that names no link, with the same response
C22_Witness ==
    /\ req[1].kind = req[2].kind /\ req[1].kind \in {"analytics", "put", "delete"}
    /\ req[1].user = "u1" /\ req[2].user = "u1"
    /\ req[1].pc = "done" /\ req[2].pc = "done"
    /\ req[1].urlId = 2 /\ urls[2].userId = "u2"
    /\ req[2].urlId \notin UrlIds
    /\ Response(req[1]) = Response(req[2])
    /\ faults = 0

---------------------------------------------------------------------------
(* POST /api/urls with custom aliases of every shape, on the store of one  *)
(* active link (CodeA) and one retired link (CodeB)                        *)

\* request bodies with a custom alias: a free word, one longer than the
\* short_code column, one too short, one with a character outside the
\* pattern, the code of the active link and the code of the retired link
AliasItems ==
    { [originalUrl |-> TargetA, customAlias |-> a] :
        a \in {AliasPromo, AliasLong, AliasShort, AliasSpaced, CodeA, CodeB} }

AliasCreateArrive(r) ==
    /\ MayArrive(r)
    /\ \E user \in Creators, item \in AliasItems :
          req' = [req EXCEPT ![r] = PostUrl(user, item)]
    /\ UNCHANGED <<urls, urlClicks, urlAnalytics, now, faults>>

NextAlias ==
    \/ \E r \in Reqs : AliasCreateArrive(r)
    \/ \E r \in Reqs : CreateStep(r)
    \/ \E r \in Reqs : CreateFault(r)

SpecAlias == InitClicks /\ [][NextAlias]_vars

\* request r is a POST /api/urls with a custom alias of the pattern that is
\* not the short code of an active link
FreeValidAlias(r) ==
    /\ req[r].kind = "create"
    /\ CurrentItem(r).customAlias # NoAlias
    /\ ValidAlias(CurrentItem(r).customAlias)
    /\ ~ActiveUnder(CurrentItem(r).customAlias)

\* C23: a POST /api/urls whose alias has 3 to 50 characters of the pattern and
\* is not the code of an active link passes the alias check, inserts a link
\* whose short code is the alias and is answered with success; an alias
\* outside the pattern is answered 400 and inserts nothing (no call throwing).
C23_ValidAliasBecomesShortCode ==
    [][\A r \in Reqs :
          /\ (/\ req[r].pc = "idle" /\ req'[r].kind = "create"
              /\ req'[r].items[1].customAlias # NoAlias
              /\ ~ValidAlias(req'[r].items[1].customAlias)) =>
                 /\ req'[r].pc = "done" /\ req'[r].status = 400
                 /\ urls' = urls /\ urlAnalytics' = urlAnalytics
          /\ (/\ req[r].pc = "checkAlias" /\ FreeValidAlias(r)
              /\ req'[r] # req[r] /\ faults' = faults) =>
                 req'[r].pc = "insertUrl"
          /\ (/\ req[r].pc = "insertUrl" /\ FreeValidAlias(r)
              /\ req'[r] # req[r] /\ faults' = faults) =>
                 /\ req'[r].pc = "insertAnalytics"
                 /\ Len(urls') = Len(urls) + 1
                 /\ urls'[Len(urls')].shortCode = CurrentItem(r).customAlias
          /\ (/\ req[r].pc = "insertAnalytics" /\ req[r].kind = "create"
              /\ CurrentItem(r).customAlias # NoAlias
              /\ req'[r] # req[r] /\ faults' = faults) =>
                 /\ req'[r].status = 200
                 /\ urls[req'[r].urlId].shortCode = CurrentItem(r).customAlias]_vars

---------------------------------------------------------------------------
(* Properties of the recorded clicks *)

\* the Referer header of the client that a click row came from
HeaderOf(row) ==
    (CHOOSE c \in Clients : c.ip = row.ipAddress /\ c.userAgent = row.userAgent).referer

\* the clicks of a link that came without a Referer header
DirectClicks(id) ==
    Len(SelectSeq(ClicksOf(urlClicks, id), LAMBDA c : HeaderOf(c) = NoReferer))

\* C24: the referrer stored with every click is the hostname of its Referer
\* header, or "Direct" when the header is absent, empty or unparseable; the
\* keys of the referrer dimension are such values; and the clicks without a
\* Referer header are counted under the key "Direct" (checked on snapshots that
\* count every click of their link).
C24_RefererIsHostnameOrDirect ==
    /\ \A i \in DOMAIN urlClicks :
          urlClicks[i].referer = extractDomain(HeaderOf(urlClicks[i]))
    /\ \A id \in DOMAIN urlAnalytics :
          (WrittenByAggregator(id) /\ CountsEveryClick(id)) =>
              /\ \A k \in DOMAIN urlAnalytics[id].clicksByReferer :
                    \E c \in Clients : k = extractDomain(c.referer)
              /\ DirectClicks(id) > 0 =>
                    /\ <<"Direct">> \in DOMAIN urlAnalytics[id].clicksByReferer
                    /\ urlAnalytics[id].clicksByReferer[<<"Direct">>] = DirectClicks(id)

---------------------------------------------------------------------------
(* parseUserAgent over every User-Agent, seen as the set of browser        *)
(* markers it contains: one GET /:shortCode for the active link            *)

BrowserMarkers == {"chrome", "edg", "firefox", "safari", "opera", "opr"}

\* clients with every combination of browser markers in their User-Agent
AgentClients ==
    { [ip |-> "10.0.0.1", userAgent |-> ua, referer |-> NoReferer] :
        ua \in SUBSET BrowserMarkers }

\* recordClick for a request of one of these clients
AgentClickInsert(r) ==
    /\ req[r].kind = "redirect" /\ req[r].pc = "recordClick"
    /\ \E client \in AgentClients :
          urlClicks' = InsertClick(urlClicks, ClickRow(req[r].urlId, client, now))
    /\ req' = [req EXCEPT ![r].pc = "updateUrlAnalytics"]
    /\ UNCHANGED <<urls, urlAnalytics, now, faults>>

NextAgents ==
    \/ RedirectArrive(1)
    \/ RedirectLookup(1)
    \/ AgentClickInsert(1)
    \/ UpdateAnalyticsSelect(1)
    \/ UpdateAnalyticsUpsert(1)

SpecAgents == InitClicks /\ [][NextAgents]_vars

\* the first browser, in the order Chrome, Firefox, Safari, Edge, Opera, whose
\* marker the User-Agent contains, the Chrome marker not counting when an
\* Edge marker is present
FirstMarkedBrowser(ua) ==
    IF "chrome" \in ua /\ "edg" \notin ua THEN "Chrome"
    ELSE IF "firefox" \in ua THEN "Firefox"
    ELSE IF "safari" \in ua THEN "Safari"
    ELSE IF "edg" \in ua THEN "Edge"
    ELSE IF "opera" \in ua \/ "opr" \in ua THEN "Opera"
    ELSE "Unknown"

\* C25 as stated: the browser of every click is the first match in the order
\* Chrome, Firefox, Safari, Edge, Opera, an Edge marker taking precedence over
\* the Chrome marker, and "Unknown" when no marker matches; a User-Agent with
\* both the chrome and the safari marker is Chrome.
C25_BrowserIsFirstMarked ==
    \A i \in DOMAIN urlClicks :
        /\ urlClicks[i].browser = FirstMarkedBrowser(urlClicks[i].userAgent)
        /\ {"chrome", "safari"} \subseteq urlClicks[i].userAgent =>
              urlClicks[i].browser = "Chrome"

\* C25 amended: the Safari marker counts only when the chrome marker is
\* absent.  So a User-Agent with chrome and safari markers is Chrome when it
\* has no Edge marker, and with an Edge marker it is Edge (Firefox if it also
\* has the firefox marker), never Safari.
C25_BrowserByGuardedMarkers ==
    \A i \in DOMAIN urlClicks :
        LET ua == urlClicks[i].userAgent
            b == urlClicks[i].browser
        IN  /\ b = "Chrome" <=> ("chrome" \in ua /\ "edg" \notin ua)
            /\ b = "Firefox" <=> (b # "Chrome" /\ "firefox" \in ua)
            /\ b = "Safari" <=>
                  (b \notin {"Chrome", "Firefox"} /\ "safari" \in ua /\ "chrome" \notin ua)
            /\ b = "Edge" <=> (b \notin {"Chrome", "Firefox", "Safari"} /\ "edg" \in ua)
            /\ b = "Opera" <=>
                  (/\ b \notin {"Chrome", "Firefox", "Safari", "Edge"}
                   /\ ("opera" \in ua \/ "opr" \in ua))
            /\ b = "Unknown" <=> (ua \cap BrowserMarkers = {})

\* the click of a browser whose User-Agent carries the chrome, safari and
\* edg markers was recorded as Edge
C25_Witness ==
    \E i \in DOMAIN urlClicks :
        /\ urlClicks[i].userAgent = {"chrome", "safari", "edg"}
        /\ urlClicks[i].browser = "Edge"

---------------------------------------------------------------------------
(* One click event per resolved request *)

\* request r ends its INSERT into url_clicks in this step
LeavesRecordClick(r) == req[r].pc = "recordClick" /\ req'[r].pc # "recordClick"

\* the INSERT of request r throws in this step
InsertThrows(r) == LeavesRecordClick(r) /\ req'[r].status = 500

\* this step appends exactly one row to the click log, for the link of r
AppendsOneFor(r) ==
    /\ Len(urlClicks') = Len(urlClicks) + 1
    /\ SubSeq(urlClicks', 1, Len(urlClicks)) = urlClicks
    /\ urlClicks'[Len(urlClicks')].urlId = req[r].urlId

\* a request runs its INSERT once: it reaches recordClick only from the lookup
InsertsOnce(r) == req'[r].pc = "recordClick" => req[r].pc \in {"getUrl", "recordClick"}

---------------------------------------------------------------------------
(* The aggregation of a recordClick call reads its own click *)

\* the SELECT of request r's updateUrlAnalytics returns in this step
SelectReturns(r) ==
    /\ req[r].pc = "updateUrlAnalytics"
    /\ req'[r].pc # "updateUrlAnalytics"
    /\ req'[r].status # 500

\* the requests whose INSERT for link id has completed
Inserted(id) ==
    {q \in Reqs : /\ req[q].urlId = id
                  /\ \/ req[q].pc \in {"updateUrlAnalytics", "upsert"}
                     \/ req[q].status = 301}

\* C27: within one recordClick call the click is appended before the
\* aggregation reads the log: the SELECT of a call always finds rows, the
\* values it computes are the aggregate of the whole log of the link as it
\* is at the read, and that log holds a row for every call that has finished
\* its INSERT, this one included.
C27_AggregationCountsOwnClick ==
    [][\A r \in Reqs :
          SelectReturns(r) =>
              LET rows == ClicksOf(urlClicks, req[r].urlId)
              IN  /\ req'[r].pc = "upsert"
                  /\ req'[r].data = Aggregate(rows)
                  /\ req'[r].data.totalClicks = Len(rows)
                  /\ Len(rows) >= Cardinality(Inserted(req[r].urlId))]_vars

\* two calls have appended their clicks; one has read the log and counted
\* both, the other has not read it yet
C27_Witness ==
    \E r, q \in Reqs :
        /\ r # q
        /\ req[r].pc = "upsert" /\ req[r].data.totalClicks = 2
        /\ req[q].pc = "updateUrlAnalytics" /\ req[q].urlId = req[r].urlId

---------------------------------------------------------------------------
(* The stored total of a link over time *)

\* C28: across any interleaving of concurrent redirect requests for one
\* link, the totalClicks stored in the link's snapshot never decreases from
\* one state to the next.
C28_TotalClicksNeverDecreases ==
    [][\A id \in DOMAIN urlAnalytics :
          urlAnalytics'[id].totalClicks >= urlAnalytics[id].totalClicks]_vars

---------------------------------------------------------------------------
(* Retirement over time *)

\* C29: a retired link stays retired: once DELETE /urls/:id has set a link
\* inactive, no later request (POST /urls, POST /urls/bulk, PUT /urls/:id
\* with any body, DELETE, GET /:shortCode) makes it active again, so its
\* short code is never again answered with a 301.
C29_RetiredStaysRetired ==
    [][\A id \in UrlIds : ~urls[id].isActive => ~urls'[id].isActive]_vars

---------------------------------------------------------------------------
(* The click recorder on a store of two active links, with calls of        *)
(* storage.updateUrlAnalytics on their own                                  *)

InitRecorder ==
    /\ urls = <<UrlRow(1, TargetA, CodeA, NoAlias, "u1", TRUE, 0),
                UrlRow(2, TargetB, CodeB, NoAlias, "u2", TRUE, 0)>>
    /\ urlClicks = <<>>
    /\ urlAnalytics = [id \in {1, 2} |-> EmptyAnalytics(0)]
    /\ now = 0
    /\ faults = 0
    /\ req = [r \in Reqs |-> IdleReq]

\* storage.updateUrlAnalytics(urlId) is called for a link
AggregateArrive(r) ==
    /\ MayArrive(r)
    /\ \E id \in UrlIds :
          req' = [req EXCEPT ![r] = [IdleReq EXCEPT !.kind = "aggregate",
                                                    !.pc = "updateUrlAnalytics",
                                                    !.urlId = id]]
    /\ UNCHANGED <<urls, urlClicks, urlAnalytics, now, faults>>

\* the SELECT over url_clicks; if (clicksData.length > 0) the call goes on to
\* the upsert, otherwise it returns
AggregateSelect(r) ==
    /\ req[r].kind = "aggregate" /\ req[r].pc = "updateUrlAnalytics"
    /\ LET rows == ClicksOf(urlClicks, req[r].urlId)
       IN  req' = [req EXCEPT ![r] =
                      IF Len(rows) > 0
                      THEN [@ EXCEPT !.data = Aggregate(rows), !.pc = "upsert"]
                      ELSE [@ EXCEPT !.pc = "done"]]
    /\ UNCHANGED <<urls, urlClicks, urlAnalytics, now, faults>>

\* the upsert; then the call returns
AggregateUpsert(r) ==
    /\ req[r].kind = "aggregate" /\ req[r].pc = "upsert"
    /\ urlAnalytics' = Upsert(urlAnalytics, req[r].urlId, req[r].data, now)
    /\ req' = [req EXCEPT ![r].pc = "done"]
    /\ UNCHANGED <<urls, urlClicks, now, faults>>

NextRecorder ==
    \/ \E r \in Reqs : RedirectArrive(r)
    \/ \E r \in Reqs : AggregateArrive(r)
    \/ \E r \in Reqs : RedirectStep(r)
    \/ \E r \in Reqs : AggregateSelect(r)
    \/ \E r \in Reqs : AggregateUpsert(r)
    \/ \E r \in Reqs : RedirectFault(r)

SpecRecorder == InitRecorder /\ [][NextRecorder]_vars

\* request r takes a step of recordClick or of updateUrlAnalytics
RecorderStep(r) ==
    /\ req[r].kind \in {"redirect", "aggregate"}
    /\ req[r].pc \in {"recordClick", "updateUrlAnalytics", "upsert"}
    /\ req'[r] # req[r]

\* C30: recording a click for link A (recordClick, then updateUrlAnalytics)
\* leaves unchanged every row of urls, and the click events and the snapshot
\* of every other link B; an updateUrlAnalytics call for a link without click
\* events returns after its read, having written nothing.
C30_RecorderTouchesOnlyItsLink ==
    [][\A r \in Reqs :
          RecorderStep(r) =>
              LET a == req[r].urlId
              IN  /\ urls' = urls
                  /\ DOMAIN urlAnalytics' = DOMAIN urlAnalytics
                  /\ \A b \in UrlIds \ {a} :
                        /\ ClicksOf(urlClicks', b) = ClicksOf(urlClicks, b)
                        /\ urlAnalytics'[b] = urlAnalytics[b]
                  /\ (/\ req[r].pc = "updateUrlAnalytics"
                      /\ ClicksOf(urlClicks, a) = <<>>
                      /\ faults' = faults) =>
                         /\ req'[r].pc = "done"
                         /\ urlAnalytics' = urlAnalytics
                         /\ urlClicks' = urlClicks]_vars

\* a click of one link was recorded and counted, and an updateUrlAnalytics
\* call for the other link, which has no clicks, has returned: that link
\* still has the empty snapshot of its creation
C30_Witness ==
    \E r, q \in Reqs :
        /\ req[r].kind = "redirect" /\ req[r].status = 301
        /\ urlAnalytics[req[r].urlId].totalClicks = 1
        /\ req[q].kind = "aggregate" /\ req[q].pc = "done"
        /\ req[q].urlId # req[r].urlId
        /\ ClicksOf(urlClicks, req[q].urlId) = <<>>
        /\ urlAnalytics[req[q].urlId] = EmptyAnalytics(0)

=============================================================================
